---- MODULE Spec2Model ----
(***************************************************************************)
(* Model of the doc-expert scripts of vector-db-demo:                      *)
(*   milvus_connection.py       connect / disconnect / verify_connection   *)
(*   step3_connect.py           connect_to_milvus / verify_connection /    *)
(*                              disconnect_from_milvus / main              *)
(*   step4_create_collection.py create_collection / create_hnsw_index /    *)
(*                              insert_sample_data / verify_collection /   *)
(*                              main                                       *)
(* The pymilvus client and the Milvus server are the environment: every    *)
(* call into them either returns or raises, chosen nondeterministically.   *)
(***************************************************************************)
EXTENDS Naturals, Integers, Sequences, FiniteSets, TLC

VARIABLES
    connected,  \* aliases bound to a connection in the current process
    colls,      \* server: collection name -> collection state
    nextCid,    \* server: next collection id to hand out
    nextId,     \* next fresh uuid4 value
    last,       \* outcome of the most recent operation
    prev,       \* outcome of the operation before it
    nOps,       \* number of operations performed (bounded)
    pc,         \* position of the running script's main
    script,     \* which script the current process runs
    handle,     \* step4 main: the local variable `collection`
    calls,      \* external calls issued so far by the current process
    flags,      \* current process: what connect / verify returned, failures
    exitCode,   \* exit status of the current process (NoExit while running)
    runs        \* number of processes started so far (bounded)

vars == <<connected, colls, nextCid, nextId, last, prev, nOps,
          pc, script, handle, calls, flags, exitCode, runs>>

----------------------------------------------------------------------------
(* Bounds of the model *)

MaxConnOps == 4
MaxSchemaOps == 3
MaxRuns == 3
MaxCount == 6

(* Program constants *)

DIMENSION == 768
NUM_SAMPLES == 5

COLLECTION_NAME == "support_docs_v1"
DEFAULT_ALIAS == "default"
Aliases == {DEFAULT_ALIAS, "other"}
Names == {COLLECTION_NAME, "other_docs"}
Dimensions == {DIMENSION, 1024}
Metrics == {"L2", "IP"}
Counts == {0, NUM_SAMPLES, MaxCount}

categories ==
    <<"installation", "troubleshooting", "billing", "features", "api">>
file_names ==
    <<"getting-started.md", "troubleshooting-guide.md", "billing-faq.md",
      "feature-overview.md", "api-reference.md">>

NoExit == -1
None == [name |-> "None", cid |-> 0]

----------------------------------------------------------------------------
(* Bookkeeping of the external calls an operation issues *)

CallKinds ==
    {"connect", "disconnect", "version", "list", "has_collection", "drop",
     "create", "load", "indexes", "create_index", "num_entities", "insert",
     "flush", "describe"}
NoCalls == [k \in CallKinds |-> 0]
One(k) == [NoCalls EXCEPT ![k] = 1]
Plus(c, d) == [k \in CallKinds |-> c[k] + d[k]]

(* The calls that read or change schema and data on the server *)
SchemaCalls ==
    {"has_collection", "drop", "create", "load", "indexes", "create_index",
     "num_entities", "insert", "flush", "describe"}

----------------------------------------------------------------------------
(* pymilvus connections: a per-process table alias -> connection *)

has_connection(conns, alias) == alias \in conns

(* connections.connect: binds the alias, or raises and binds nothing.      *)
(* Connecting an alias that is already bound with the same address returns *)
(* without raising.                                                        *)
lib_connect(conns, alias, ok) ==
    IF ok \/ alias \in conns
    THEN [conns |-> conns \cup {alias}, raised |-> FALSE]
    ELSE [conns |-> conns, raised |-> TRUE]

(* connections.disconnect: unbinds the alias, then closes the channel;     *)
(* only the close can raise.                                               *)
lib_disconnect(conns, alias, ok) ==
    [conns |-> conns \ {alias}, raised |-> ~ok]

(* utility.get_server_version() and utility.list_collections() are called *)
(* without `using`, so they go through the alias "default".                *)
lib_probe(conns, ok) == ok /\ DEFAULT_ALIAS \in conns

----------------------------------------------------------------------------
(* milvus_connection.py *)

connect(conns, alias, ok) ==
    IF has_connection(conns, alias)
    THEN [conns |-> conns, result |-> TRUE, raised |-> FALSE,
          calls |-> NoCalls]
    ELSE LET r == lib_connect(conns, alias, ok)
         IN  [conns |-> r.conns, result |-> ~r.raised, raised |-> FALSE,
              calls |-> One("connect")]

disconnect_all(conns, alias, ok) ==
    IF has_connection(conns, alias)
    THEN [conns |-> {}, result |-> TRUE, raised |-> FALSE,
          calls |-> One("disconnect")]
    ELSE [conns |-> conns, result |-> TRUE, raised |-> FALSE,
          calls |-> NoCalls]

disconnect(conns, alias, ok) ==
    IF has_connection(conns, alias)
    THEN LET r == lib_disconnect(conns, alias, ok)
         IN  [conns |-> r.conns, result |-> TRUE, raised |-> FALSE,
              calls |-> One("disconnect")]
    ELSE [conns |-> conns, result |-> TRUE, raised |-> FALSE,
          calls |-> NoCalls]

(* probe: whether get_server_version returned; listed: whether             *)
(* list_collections returned ("n/a" when not called)                       *)
verify_connection(conns, alias, okVersion) ==
    IF ~has_connection(conns, alias)
    THEN [conns |-> conns, result |-> FALSE, raised |-> FALSE,
          calls |-> NoCalls, probe |-> "n/a", listed |-> "n/a"]
    ELSE LET p == lib_probe(conns, okVersion)
         IN  [conns |-> conns, result |-> p, raised |-> FALSE,
              calls |-> One("version"),
              probe |-> IF p THEN "ok" ELSE "raised", listed |-> "n/a"]

----------------------------------------------------------------------------
(* step3_connect.py *)

connect_to_milvus(conns, alias, ok) ==
    LET r == lib_connect(conns, alias, ok)
    IN  [conns |-> r.conns, result |-> ~r.raised, raised |-> FALSE,
         calls |-> One("connect")]

step3_verify_connection(conns, alias, okVersion, okList) ==
    IF ~has_connection(conns, alias)
    THEN [conns |-> conns, result |-> FALSE, raised |-> FALSE,
          calls |-> NoCalls, probe |-> "n/a", listed |-> "n/a"]
    ELSE LET p == lib_probe(conns, okVersion)
             l == lib_probe(conns, okList)
         IN  IF ~p
             THEN [conns |-> conns, result |-> FALSE, raised |-> FALSE,
                   calls |-> One("version"),
                   probe |-> "raised", listed |-> "n/a"]
             ELSE [conns |-> conns, result |-> l, raised |-> FALSE,
                   calls |-> Plus(One("version"), One("list")),
                   probe |-> "ok",
                   listed |-> IF l THEN "ok" ELSE "raised"]

disconnect_from_milvus(conns, alias, ok) ==
    IF has_connection(conns, alias)
    THEN LET r == lib_disconnect(conns, alias, ok)
         IN  [conns |-> r.conns, result |-> TRUE, raised |-> FALSE,
              calls |-> One("disconnect")]
    ELSE [conns |-> conns, result |-> TRUE, raised |-> FALSE,
          calls |-> NoCalls]

----------------------------------------------------------------------------
(* step4_create_collection.py: the schema and the server's collections *)

create_collection_schema(dimension) ==
    [description |->
        "Customer support documents collection with enhanced metadata",
     fields |-> <<
        [name |-> "id", dtype |-> "VARCHAR", is_primary |-> TRUE,
         size |-> 100],
        [name |-> "embedding", dtype |-> "FLOAT_VECTOR",
         is_primary |-> FALSE, size |-> dimension],
        [name |-> "file_path", dtype |-> "VARCHAR", is_primary |-> FALSE,
         size |-> 512],
        [name |-> "file_name", dtype |-> "VARCHAR", is_primary |-> FALSE,
         size |-> 255],
        [name |-> "chunk_index", dtype |-> "INT64", is_primary |-> FALSE,
         size |-> 0],
        [name |-> "category", dtype |-> "VARCHAR", is_primary |-> FALSE,
         size |-> 100],
        [name |-> "text", dtype |-> "VARCHAR", is_primary |-> FALSE,
         size |-> 2000] >>]

(* The dim of the FLOAT_VECTOR field of a schema *)
SchemaDim(schema) ==
    LET i == CHOOSE j \in DOMAIN schema.fields :
                 schema.fields[j].dtype = "FLOAT_VECTOR"
    IN  schema.fields[i].size

(* Collection(name, schema) on a server without that name: the server      *)
(* creates it under a fresh collection id, with no index and no rows.      *)
NewCollection(cid, schema) ==
    [cid |-> cid, schema |-> schema, indexes |-> <<>>, rows |-> <<>>,
     pending |-> <<>>]

Without(srv, name) == [n \in DOMAIN srv \ {name} |-> srv[n]]
With(srv, name, c) ==
    [n \in DOMAIN srv \cup {name} |-> IF n = name THEN c ELSE srv[n]]

(* collection.num_entities: the rows made visible by a flush *)
num_entities(srv, name) == Len(srv[name].rows)

(* Which external calls of an operation return (TRUE) or raise (FALSE) *)
OkKeys ==
    {"has", "drop", "load", "create", "indexes", "create_index",
     "num_entities", "insert", "flush", "describe"}
AllOk == [k \in OkKeys |-> TRUE]
(* The outcomes of the calls in `keys`; the other calls are not reached *)
Oks(keys) ==
    {[k \in OkKeys |-> k \notin failing] : failing \in SUBSET keys}

create_collection_alwaysDrop(srv, cid, name, dimension, drop_existing, ok) ==
    IF ~ok["has"]
    THEN [colls |-> srv, nextCid |-> cid, raised |-> TRUE, handle |-> None,
          calls |-> One("has_collection")]
    ELSE LET existed == name \in DOMAIN srv
             c1 == IF existed
                   THEN Plus(One("has_collection"), One("drop"))
                   ELSE One("has_collection")
         IN  IF existed /\ ~ok["drop"]
             THEN [colls |-> srv, nextCid |-> cid, raised |-> TRUE,
                   handle |-> None, calls |-> c1]
             ELSE IF ~ok["create"]
             THEN [colls |-> Without(srv, name), nextCid |-> cid,
                   raised |-> TRUE, handle |-> None,
                   calls |-> Plus(c1, One("create"))]
             ELSE [colls |-> With(Without(srv, name), name,
                       NewCollection(cid,
                           create_collection_schema(dimension))),
                   nextCid |-> cid + 1, raised |-> FALSE,
                   handle |-> [name |-> name, cid |-> cid],
                   calls |-> Plus(c1, One("create"))]

create_collection(srv, cid, name, dimension, drop_existing, ok) ==
    IF ~ok["has"]
    THEN [colls |-> srv, nextCid |-> cid, raised |-> TRUE, handle |-> None,
          calls |-> One("has_collection")]
    ELSE IF name \in DOMAIN srv /\ ~drop_existing
    THEN \* return Collection(collection_name): loads the existing one
         IF ok["load"]
         THEN [colls |-> srv, nextCid |-> cid, raised |-> FALSE,
               handle |-> [name |-> name, cid |-> srv[name].cid],
               calls |-> Plus(One("has_collection"), One("load"))]
         ELSE [colls |-> srv, nextCid |-> cid, raised |-> TRUE,
               handle |-> None,
               calls |-> Plus(One("has_collection"), One("load"))]
    ELSE LET existed == name \in DOMAIN srv
             c1 == IF existed
                   THEN Plus(One("has_collection"), One("drop"))
                   ELSE One("has_collection")
         IN  IF existed /\ ~ok["drop"]
             THEN [colls |-> srv, nextCid |-> cid, raised |-> TRUE,
                   handle |-> None, calls |-> c1]
             ELSE IF ~ok["create"]
             THEN [colls |-> Without(srv, name), nextCid |-> cid,
                   raised |-> TRUE, handle |-> None,
                   calls |-> Plus(c1, One("create"))]
             ELSE [colls |-> With(Without(srv, name), name,
                       NewCollection(cid,
                           create_collection_schema(dimension))),
                   nextCid |-> cid + 1, raised |-> FALSE,
                   handle |-> [name |-> name, cid |-> cid],
                   calls |-> Plus(c1, One("create"))]

index_params(metric_type) ==
    [field_name |-> "embedding", metric_type |-> metric_type,
     index_type |-> "HNSW", M |-> 16, efConstruction |-> 200]

(* collection.create_index: the server records every index build it       *)
(* accepts.                                                                *)
create_hnsw_index(srv, name, metric_type, ok) ==
    IF ok["create_index"]
    THEN [colls |-> [srv EXCEPT ![name].indexes =
                         Append(@, index_params(metric_type))],
          raised |-> FALSE, calls |-> One("create_index")]
    ELSE [colls |-> srv, raised |-> TRUE, calls |-> One("create_index")]

(* main, lines 313-320: build the index only when the collection has none *)
ensure_index_noGuard(srv, name, metric_type, ok) ==
    IF ~ok["indexes"]
    THEN [colls |-> srv, raised |-> TRUE, calls |-> One("indexes")]
    ELSE LET r == create_hnsw_index(srv, name, metric_type, ok)
         IN  [r EXCEPT !.calls = Plus(One("indexes"), @)]

ensure_index(srv, name, metric_type, ok) ==
    IF ~ok["indexes"]
    THEN [colls |-> srv, raised |-> TRUE, calls |-> One("indexes")]
    ELSE IF srv[name].indexes = <<>>
    THEN LET r == create_hnsw_index(srv, name, metric_type, ok)
         IN  [r EXCEPT !.calls = Plus(One("indexes"), @)]
    ELSE [colls |-> srv, raised |-> FALSE, calls |-> One("indexes")]

(* One entity of insert_sample_data's loop, for the 0-based index i. The   *)
(* embedding is represented by its length.                                 *)
Entity(i, id) ==
    [id |-> id,
     embedding |-> DIMENSION,
     file_name |-> file_names[i + 1],
     chunk_index |-> i,
     category |-> categories[(i % Len(categories)) + 1]]

(* collection.insert: raises on a failure or when an embedding's length is *)
(* not the collection's dimension; otherwise the rows are accepted but not *)
(* yet visible.                                                            *)
lib_insert(srv, name, entities, ok) ==
    IF ok["insert"]
       /\ \A i \in DOMAIN entities :
              entities[i].embedding = SchemaDim(srv[name].schema)
    THEN [colls |-> [srv EXCEPT ![name].pending = @ \o entities],
          raised |-> FALSE]
    ELSE [colls |-> srv, raised |-> TRUE]

(* collection.flush: makes the accepted rows visible *)
lib_flush(srv, name, ok) ==
    IF ok["flush"]
    THEN [colls |-> [srv EXCEPT ![name].rows = @ \o srv[name].pending,
                                ![name].pending = <<>>],
          raised |-> FALSE]
    ELSE [colls |-> srv, raised |-> TRUE]

insert_sample_data_noFlush(srv, idNext, name, num_samples, ok) ==
    IF num_samples > Len(file_names)
    THEN [colls |-> srv, nextId |-> idNext + Len(file_names) + 1,
          raised |-> TRUE, calls |-> NoCalls, sent |-> <<>>]
    ELSE LET entities ==
                 [i \in 1..num_samples |-> Entity(i - 1, idNext + i - 1)]
             ins == lib_insert(srv, name, entities, ok)
         IN  [colls |-> ins.colls, nextId |-> idNext + num_samples,
              raised |-> ins.raised, calls |-> One("insert"),
              sent |-> entities]

(* sent: the entities handed to collection.insert (<<>> when not reached) *)
insert_sample_data(srv, idNext, name, num_samples, ok) ==
    IF num_samples > Len(file_names)
    THEN \* file_names[i] raises IndexError at i = len(file_names), after
         \* that iteration's uuid4() was drawn
         [colls |-> srv, nextId |-> idNext + Len(file_names) + 1,
          raised |-> TRUE, calls |-> NoCalls, sent |-> <<>>]
    ELSE LET entities ==
                 [i \in 1..num_samples |-> Entity(i - 1, idNext + i - 1)]
             ins == lib_insert(srv, name, entities, ok)
             fl == lib_flush(ins.colls, name, ok)
         IN  IF ins.raised
             THEN [colls |-> ins.colls, nextId |-> idNext + num_samples,
                   raised |-> TRUE, calls |-> One("insert"),
                   sent |-> entities]
             ELSE [colls |-> fl.colls, nextId |-> idNext + num_samples,
                   raised |-> fl.raised,
                   calls |-> Plus(One("insert"), One("flush")),
                   sent |-> entities]

(* main, lines 322-329: insert the samples only into an empty collection *)
ensure_sample_data(srv, idNext, name, count, ok) ==
    IF ~ok["num_entities"]
    THEN [colls |-> srv, nextId |-> idNext, raised |-> TRUE,
          calls |-> One("num_entities"), sent |-> <<>>]
    ELSE IF num_entities(srv, name) = 0
    THEN LET r == insert_sample_data(srv, idNext, name, count, ok)
         IN  [r EXCEPT !.calls = Plus(One("num_entities"), @)]
    ELSE \* line 327 reads num_entities once more for the message
         [colls |-> srv, nextId |-> idNext, raised |-> FALSE,
          calls |-> Plus(One("num_entities"), One("num_entities")),
          sent |-> <<>>]

(* verify_collection: reads name, num_entities, schema and indexes *)
verify_collection(srv, name, ok) ==
    IF ok["describe"]
    THEN [raised |-> FALSE, calls |-> One("describe"),
          report |-> [name |-> name,
                      num_entities |-> num_entities(srv, name),
                      fields |-> srv[name].schema.fields,
                      indexes |-> srv[name].indexes]]
    ELSE [raised |-> TRUE, calls |-> One("describe"),
          report |-> [name |-> name]]

----------------------------------------------------------------------------
(* State shared by the specifications *)

NoOp == [op |-> "none"]

IdleProcess ==
    /\ pc = "idle"
    /\ script = "none"
    /\ handle = None
    /\ calls = NoCalls
    /\ flags = [connectOk |-> FALSE, verifyOk |-> FALSE, failed |-> FALSE,
                fresh |-> FALSE]
    /\ exitCode = NoExit
    /\ runs = 0

Init ==
    /\ connected = {}
    /\ colls = << >>
    /\ nextCid = 1
    /\ nextId = 1
    /\ last = NoOp
    /\ prev = NoOp
    /\ nOps = 0
    /\ IdleProcess

processVars == <<pc, script, handle, calls, flags, exitCode, runs>>
serverVars == <<colls, nextCid, nextId>>

----------------------------------------------------------------------------
(* ConnSpec: the connection functions of both modules, called in any order *)
(* by one process                                                          *)

ConnOp(op, alias, r) ==
    /\ nOps < MaxConnOps
    /\ nOps' = nOps + 1
    /\ connected' = r.conns
    /\ prev' = last
    /\ last' = [op |-> op, alias |-> alias, pre |-> connected,
                post |-> r.conns, result |-> r.result, raised |-> r.raised,
                calls |-> r.calls,
                probe |-> IF "probe" \in DOMAIN r THEN r.probe ELSE "n/a",
                listed |-> IF "listed" \in DOMAIN r THEN r.listed ELSE "n/a"]
    /\ UNCHANGED <<serverVars, processVars>>

Connect ==
    \E alias \in Aliases, ok \in BOOLEAN :
        ConnOp("connect", alias, connect(connected, alias, ok))

Disconnect ==
    \E alias \in Aliases, ok \in BOOLEAN :
        ConnOp("disconnect", alias, disconnect(connected, alias, ok))

VerifyConnection ==
    \E alias \in Aliases, ok \in BOOLEAN :
        ConnOp("verify_connection", alias,
               verify_connection(connected, alias, ok))

ConnectToMilvus ==
    \E alias \in Aliases, ok \in BOOLEAN :
        ConnOp("connect_to_milvus", alias,
               connect_to_milvus(connected, alias, ok))

Step3VerifyConnection ==
    \E alias \in Aliases, okVersion \in BOOLEAN, okList \in BOOLEAN :
        ConnOp("step3_verify_connection", alias,
               step3_verify_connection(connected, alias, okVersion, okList))

DisconnectFromMilvus ==
    \E alias \in Aliases, ok \in BOOLEAN :
        ConnOp("disconnect_from_milvus", alias,
               disconnect_from_milvus(connected, alias, ok))

ConnNext ==
    \/ Connect
    \/ Disconnect
    \/ VerifyConnection
    \/ ConnectToMilvus
    \/ Step3VerifyConnection
    \/ DisconnectFromMilvus

ConnSpec == Init /\ [][ConnNext]_vars

ConnectOps == {"connect", "connect_to_milvus"}
VerifyOps == {"verify_connection", "step3_verify_connection"}
DisconnectOps == {"disconnect", "disconnect_from_milvus"}

(* C3: connect is idempotent per alias, for both connect entry points:     *)
(* called while the alias is already connected it returns True, does not   *)
(* raise and issues no connect call to the client library; so of two       *)
(* consecutive connect calls with the same alias, the first of which       *)
(* succeeded, the second returns True and the library's connect was        *)
(* invoked at most once.                                                   *)
C3_ConnectIdempotent ==
    /\ (last.op \in ConnectOps /\ last.alias \in last.pre) =>
           /\ last.result = TRUE
           /\ ~last.raised
           /\ last.calls["connect"] = 0
    /\ (/\ prev.op \in ConnectOps
        /\ last.op \in ConnectOps
        /\ prev.alias = last.alias
        /\ prev.result = TRUE) =>
           /\ last.result = TRUE
           /\ prev.calls["connect"] + last.calls["connect"] <= 1

(* C9: verify(alias), in both implementations, never raises and leaves the *)
(* connections as they were; without a connection for the alias it returns *)
(* False and contacts nothing; with one it issues the server-version probe *)
(* and returns True exactly when that probe succeeded.                     *)
C9_VerifyIsVersionProbe ==
    last.op \in VerifyOps =>
        /\ ~last.raised
        /\ last.post = last.pre
        /\ last.alias \notin last.pre =>
               (last.result = FALSE /\ last.calls = NoCalls)
        /\ last.alias \in last.pre =>
               /\ last.calls["version"] = 1
               /\ last.result = (last.probe = "ok")

(* C10: disconnect(alias), in both implementations, never raises; without  *)
(* a connection for the alias it issues no client call and leaves the      *)
(* connections unchanged; with one it issues one client disconnect and     *)
(* removes exactly that alias. A verify of the alias right after returns   *)
(* False, and a connect of the alias right after issues a client connect.  *)
C10_DisconnectSafe ==
    /\ last.op \in DisconnectOps =>
           /\ ~last.raised
           /\ last.alias \notin last.pre =>
                  (last.calls = NoCalls /\ last.post = last.pre)
           /\ last.alias \in last.pre =>
                  /\ last.calls = One("disconnect")
                  /\ last.post = last.pre \ {last.alias}
    /\ (prev.op \in DisconnectOps /\ last.op \in VerifyOps
        /\ last.alias = prev.alias) =>
           last.result = FALSE
    /\ (prev.op \in DisconnectOps /\ last.op \in ConnectOps
        /\ last.alias = prev.alias) =>
           last.calls["connect"] = 1

(* C10 witness: with two aliases connected one was disconnected, the other *)
(* is still connected, and the disconnected alias was connected again.     *)
C10_Witness ==
    /\ prev.op \in DisconnectOps
    /\ prev.alias \in prev.pre
    /\ prev.post # {}
    /\ last.op = "connect"
    /\ last.alias = prev.alias
    /\ last.calls["connect"] = 1

----------------------------------------------------------------------------
(* SchemaSpec: the schema and ingestion steps of step4_create_collection,  *)
(* applied in any order with any arguments by a connected process          *)

SchemaInit ==
    /\ connected = {DEFAULT_ALIAS}
    /\ colls = << >>
    /\ nextCid = 1
    /\ nextId = 1
    /\ last = NoOp
    /\ prev = NoOp
    /\ nOps = 0
    /\ IdleProcess

SchemaOp(rec, r) ==
    /\ nOps < MaxSchemaOps
    /\ nOps' = nOps + 1
    /\ colls' = r.colls
    /\ nextCid' = IF "nextCid" \in DOMAIN r THEN r.nextCid ELSE nextCid
    /\ nextId' = IF "nextId" \in DOMAIN r THEN r.nextId ELSE nextId
    /\ prev' = last
    /\ last' = [op |-> rec.op, name |-> rec.name, args |-> rec.args,
                allOk |-> rec.allOk, pre |-> colls, raised |-> r.raised,
                calls |-> r.calls,
                handle |-> IF "handle" \in DOMAIN r THEN r.handle ELSE None,
                sent |-> IF "sent" \in DOMAIN r THEN r.sent ELSE <<>>]
    /\ UNCHANGED <<connected, processVars>>

CreateCollection ==
    \E name \in Names, dimension \in Dimensions, drop_existing \in BOOLEAN,
       ok \in Oks({"has", "drop", "load", "create"}) :
        SchemaOp([op |-> "create_collection", name |-> name,
                  args |-> [dimension |-> dimension,
                            drop_existing |-> drop_existing],
                  allOk |-> ok = AllOk],
                 create_collection(colls, nextCid, name, dimension,
                                   drop_existing, ok))

EnsureIndex ==
    \E name \in DOMAIN colls, metric_type \in Metrics,
       ok \in Oks({"indexes", "create_index"}) :
        SchemaOp([op |-> "ensure_index", name |-> name,
                  args |-> [metric_type |-> metric_type],
                  allOk |-> ok = AllOk],
                 ensure_index(colls, name, metric_type, ok))

EnsureSampleData ==
    \E name \in DOMAIN colls, count \in Counts,
       ok \in Oks({"num_entities", "insert", "flush"}) :
        SchemaOp([op |-> "ensure_sample_data", name |-> name,
                  args |-> [count |-> count],
                  allOk |-> ok = AllOk],
                 ensure_sample_data(colls, nextId, name, count, ok))

SchemaNext ==
    \/ CreateCollection
    \/ EnsureIndex
    \/ EnsureSampleData

SchemaSpec == SchemaInit /\ [][SchemaNext]_vars

PrimaryFields(schema) ==
    {i \in DOMAIN schema.fields : schema.fields[i].is_primary}

(* Every collection but `name` is on the server exactly as it was in `pre` *)
OthersUnchanged(pre, post, name) ==
    /\ DOMAIN post \ {name} = DOMAIN pre \ {name}
    /\ \A n \in DOMAIN pre \ {name} : post[n] = pre[n]

(* C4: create_collection(name, dimension, drop_existing) has three         *)
(* outcomes. Exists and not drop_existing: nothing on the server changes,  *)
(* no drop and no create is issued, and the handle returned is that of the *)
(* existing collection whatever the dimension argument. Exists and         *)
(* drop_existing: it is dropped and created anew under the schema of       *)
(* `dimension`, with no rows and no index. Absent: it is created under the *)
(* schema of `dimension`. Other collections are untouched, and two         *)
(* successive calls without drop_existing return the same collection.      *)
C4_CreateCollectionOutcomes ==
    /\ last.op = "create_collection" =>
         LET name == last.name
             existed == name \in DOMAIN last.pre
             drop == last.args.drop_existing
             fresh ==
                 /\ name \in DOMAIN colls
                 /\ colls[name].cid = last.handle.cid
                 /\ \A n \in DOMAIN last.pre :
                        last.pre[n].cid # last.handle.cid
                 /\ SchemaDim(colls[name].schema) = last.args.dimension
                 /\ Cardinality(PrimaryFields(colls[name].schema)) = 1
                 /\ colls[name].indexes = <<>>
                 /\ colls[name].rows = <<>>
                 /\ colls[name].pending = <<>>
         IN  /\ OthersUnchanged(last.pre, colls, name)
             /\ (existed /\ ~drop) =>
                    /\ colls = last.pre
                    /\ last.calls["drop"] = 0
                    /\ last.calls["create"] = 0
                    /\ ~last.raised =>
                           last.handle =
                               [name |-> name, cid |-> last.pre[name].cid]
             /\ (existed /\ drop /\ ~last.raised) =>
                    /\ last.calls["drop"] = 1
                    /\ last.calls["create"] = 1
                    /\ fresh
             /\ (~existed /\ ~last.raised) =>
                    /\ last.calls["drop"] = 0
                    /\ last.calls["create"] = 1
                    /\ fresh
             /\ last.allOk => ~last.raised
    /\ (/\ prev.op = "create_collection"
        /\ last.op = "create_collection"
        /\ prev.name = last.name
        /\ ~prev.args.drop_existing /\ ~last.args.drop_existing
        /\ ~prev.raised /\ ~last.raised) =>
           /\ last.handle = prev.handle
           /\ Cardinality({n \in DOMAIN colls : n = last.name}) = 1
           /\ \A n \in DOMAIN colls \ {last.name} :
                  colls[n].cid # colls[last.name].cid

(* C4 witness: a second create_collection without drop_existing, asking    *)
(* for another dimension, returned the collection the first one created.   *)
C4_Witness ==
    /\ prev.op = "create_collection" /\ last.op = "create_collection"
    /\ prev.name = last.name
    /\ prev.name \notin DOMAIN prev.pre
    /\ ~prev.args.drop_existing /\ ~last.args.drop_existing
    /\ ~prev.raised /\ ~last.raised
    /\ prev.args.dimension # last.args.dimension
    /\ last.handle = prev.handle

(* C8: the index step builds an index only on a collection without one:    *)
(* then it issues one create_index for field "embedding" with HNSW, M=16,  *)
(* efConstruction=200 and the chosen metric; on a collection that has an   *)
(* index it issues no create_index and changes nothing. No collection ever *)
(* has more than one index.                                                *)
C8_EnsureIndexIdempotent ==
    /\ \A n \in DOMAIN colls : Len(colls[n].indexes) <= 1
    /\ last.op = "ensure_index" =>
         LET name == last.name
             had == last.pre[name].indexes # <<>>
         IN  /\ had =>
                    /\ last.calls["create_index"] = 0
                    /\ colls = last.pre
             /\ (~had /\ ~last.raised) =>
                    /\ last.calls["create_index"] = 1
                    /\ colls[name].indexes =
                           << [field_name |-> "embedding",
                               metric_type |-> last.args.metric_type,
                               index_type |-> "HNSW", M |-> 16,
                               efConstruction |-> 200] >>
                    /\ colls = [last.pre EXCEPT ![name].indexes =
                                    colls[name].indexes]
             /\ last.raised => colls = last.pre
             /\ last.allOk => ~last.raised

(* C8 witness: the index step ran twice in succession on one collection,   *)
(* the second time asking for the other metric, and succeeded both times.  *)
C8_Witness ==
    /\ prev.op = "ensure_index" /\ last.op = "ensure_index"
    /\ prev.name = last.name
    /\ ~prev.raised /\ ~last.raised
    /\ prev.args.metric_type # last.args.metric_type
    /\ prev.calls["create_index"] = 1
    /\ Len(colls[last.name].indexes) = 1

Ids(rows) == {rows[i].id : i \in DOMAIN rows}

(* C5: for every count, the sample-data step applied to an empty           *)
(* collection (of the configured dimension, every external call            *)
(* succeeding) leaves exactly count rows visible, with distinct primary    *)
(* keys and categories and file names rotating through the fixed lists;    *)
(* applied to a non-empty collection it inserts nothing.                   *)
C5_SampleDataExactlyCount ==
    (/\ last.op = "ensure_sample_data"
     /\ last.allOk
     /\ SchemaDim(last.pre[last.name].schema) = DIMENSION) =>
        LET name == last.name
            rows == colls[name].rows
        IN  /\ last.pre[name].rows = <<>> /\ last.pre[name].pending = <<>> =>
                   /\ ~last.raised
                   /\ Len(rows) = last.args.count
                   /\ Cardinality(Ids(rows)) = last.args.count
                   /\ \A i \in DOMAIN rows :
                          /\ rows[i].category =
                                 categories[((i - 1) % Len(categories)) + 1]
                          /\ rows[i].file_name =
                                 file_names[((i - 1) % Len(file_names)) + 1]
            /\ last.pre[name].rows # <<>> =>
                   /\ colls = last.pre
                   /\ last.calls["insert"] = 0

(* C6: every record handed to insert has an embedding of the length of the *)
(* collection's dimension: after create_collection(name, d) on a server    *)
(* without that collection, followed by the sample-data step on it, every  *)
(* record sent has an embedding of length d and, every external call       *)
(* succeeding, the records are stored.                                     *)
C6_EmbeddingMatchesDimension ==
    (/\ prev.op = "create_collection"
     /\ ~prev.raised
     /\ prev.name \notin DOMAIN prev.pre
     /\ last.op = "ensure_sample_data"
     /\ last.name = prev.name
     /\ last.args.count <= Len(file_names)
     /\ last.allOk) =>
        /\ \A i \in DOMAIN last.sent :
               last.sent[i].embedding = prev.args.dimension
        /\ ~last.raised
        /\ Len(colls[last.name].rows) = last.args.count

----------------------------------------------------------------------------
(* PipeSpec: runs of the scripts, one process after another, against one   *)
(* server. A process starts without connections; what it left on the       *)
(* server stays.                                                           *)

Scripts == {"step3", "step4"}

StartRun ==
    /\ pc \in {"idle", "done"}
    /\ runs < MaxRuns
    /\ \E s \in Scripts : script' = s
    /\ runs' = runs + 1
    /\ pc' = "connect"
    /\ connected' = {}
    /\ handle' = None
    /\ calls' = NoCalls
    /\ flags' = [connectOk |-> FALSE, verifyOk |-> FALSE, failed |-> FALSE,
                 fresh |-> colls = << >>]
    /\ exitCode' = NoExit
    /\ UNCHANGED <<serverVars, last, prev, nOps>>

(* sys.exit(code), or main returning (code 0) *)
Exit(code) ==
    /\ pc' = "done"
    /\ exitCode' = code

Goto(label) ==
    /\ pc' = label
    /\ exitCode' = exitCode

(* step4 main, lines 291-296 *)
Step4Connect ==
    /\ script = "step4" /\ pc = "connect"
    /\ \E ok \in BOOLEAN :
        LET r == connect(connected, DEFAULT_ALIAS, ok)
        IN  /\ connected' = r.conns
            /\ calls' = Plus(calls, r.calls)
            /\ flags' = [flags EXCEPT !.connectOk = r.result,
                                      !.failed = @ \/ ~r.result]
            /\ IF ~r.result THEN Exit(1) ELSE Goto("verify")
    /\ UNCHANGED <<serverVars, last, prev, nOps, script, handle, runs>>

(* step4 main, lines 298-300 *)
Step4Verify_noExit ==
    /\ script = "step4" /\ pc = "verify"
    /\ \E ok \in BOOLEAN :
        LET r == verify_connection(connected, DEFAULT_ALIAS, ok)
        IN  /\ connected' = r.conns
            /\ calls' = Plus(calls, r.calls)
            /\ flags' = [flags EXCEPT !.verifyOk = r.result,
                                      !.failed = @ \/ ~r.result]
            /\ Goto("create")
    /\ UNCHANGED <<serverVars, last, prev, nOps, script, handle, runs>>

Step4Verify ==
    /\ script = "step4" /\ pc = "verify"
    /\ \E ok \in BOOLEAN :
        LET r == verify_connection(connected, DEFAULT_ALIAS, ok)
        IN  /\ connected' = r.conns
            /\ calls' = Plus(calls, r.calls)
            /\ flags' = [flags EXCEPT !.verifyOk = r.result,
                                      !.failed = @ \/ ~r.result]
            /\ IF ~r.result THEN Exit(1) ELSE Goto("create")
    /\ UNCHANGED <<serverVars, last, prev, nOps, script, handle, runs>>

(* step4 main, lines 305-311; an exception is caught at 340-344 *)
Step4CreateCollection ==
    /\ script = "step4" /\ pc = "create"
    /\ \E ok \in Oks({"has", "load", "create"}) :
        LET r == create_collection(colls, nextCid, COLLECTION_NAME,
                                   DIMENSION, FALSE, ok)
        IN  /\ colls' = r.colls
            /\ nextCid' = r.nextCid
            /\ handle' = r.handle
            /\ calls' = Plus(calls, r.calls)
            /\ flags' = [flags EXCEPT !.failed = @ \/ r.raised]
            /\ IF r.raised THEN Exit(1) ELSE Goto("index")
    /\ UNCHANGED <<connected, nextId, last, prev, nOps, script, runs>>

(* step4 main, lines 313-320 *)
Step4EnsureIndex ==
    /\ script = "step4" /\ pc = "index"
    /\ \E ok \in Oks({"indexes", "create_index"}) :
        LET r == ensure_index(colls, handle.name, "L2", ok)
        IN  /\ colls' = r.colls
            /\ calls' = Plus(calls, r.calls)
            /\ flags' = [flags EXCEPT !.failed = @ \/ r.raised]
            /\ IF r.raised THEN Exit(1) ELSE Goto("data")
    /\ UNCHANGED <<connected, nextCid, nextId, last, prev, nOps, script,
                   handle, runs>>

(* step4 main, lines 322-329 *)
Step4EnsureSampleData ==
    /\ script = "step4" /\ pc = "data"
    /\ \E ok \in Oks({"num_entities", "insert", "flush"}) :
        LET r == ensure_sample_data(colls, nextId, handle.name,
                                    NUM_SAMPLES, ok)
        IN  /\ colls' = r.colls
            /\ nextId' = r.nextId
            /\ calls' = Plus(calls, r.calls)
            /\ flags' = [flags EXCEPT !.failed = @ \/ r.raised]
            /\ IF r.raised THEN Exit(1) ELSE Goto("report")
    /\ UNCHANGED <<connected, nextCid, last, prev, nOps, script, handle,
                   runs>>

(* step4 main, lines 331-338: report, then return *)
Step4VerifyCollection ==
    /\ script = "step4" /\ pc = "report"
    /\ \E ok \in Oks({"describe"}) :
        LET r == verify_collection(colls, handle.name, ok)
        IN  /\ calls' = Plus(calls, r.calls)
            /\ flags' = [flags EXCEPT !.failed = @ \/ r.raised]
            /\ IF r.raised THEN Exit(1) ELSE Exit(0)
    /\ UNCHANGED <<connected, serverVars, last, prev, nOps, script, handle,
                   runs>>

(* step3 main, lines 110-113 *)
Step3Connect ==
    /\ script = "step3" /\ pc = "connect"
    /\ \E ok \in BOOLEAN :
        LET r == connect_to_milvus(connected, DEFAULT_ALIAS, ok)
        IN  /\ connected' = r.conns
            /\ calls' = Plus(calls, r.calls)
            /\ flags' = [flags EXCEPT !.connectOk = r.result,
                                      !.failed = @ \/ ~r.result]
            /\ IF ~r.result THEN Exit(1) ELSE Goto("verify")
    /\ UNCHANGED <<serverVars, last, prev, nOps, script, handle, runs>>

(* step3 main, lines 117-131: on a failed verification, disconnect and     *)
(* exit 1; otherwise return with the connection open                       *)
Step3Verify ==
    /\ script = "step3" /\ pc = "verify"
    /\ \E okVersion \in BOOLEAN, okList \in BOOLEAN, okClose \in BOOLEAN :
        LET r == step3_verify_connection(connected, DEFAULT_ALIAS,
                                         okVersion, okList)
            d == disconnect_from_milvus(r.conns, DEFAULT_ALIAS, okClose)
        IN  /\ flags' = [flags EXCEPT !.verifyOk = r.result,
                                      !.failed = @ \/ ~r.result]
            /\ IF ~r.result
               THEN /\ connected' = d.conns
                    /\ calls' = Plus(calls, Plus(r.calls, d.calls))
                    /\ Exit(1)
               ELSE /\ connected' = r.conns
                    /\ calls' = Plus(calls, r.calls)
                    /\ Exit(0)
    /\ UNCHANGED <<serverVars, last, prev, nOps, script, handle, runs>>

RunStep ==
    \/ Step4Connect
    \/ Step4Verify
    \/ Step4CreateCollection
    \/ Step4EnsureIndex
    \/ Step4EnsureSampleData
    \/ Step4VerifyCollection
    \/ Step3Connect
    \/ Step3Verify

PipeNext ==
    \/ StartRun
    \/ RunStep

PipeSpec == Init /\ [][PipeNext]_vars

(* A process runs its main to the end: every call returns or raises *)
PipeFairSpec == PipeSpec /\ WF_vars(RunStep)

Provisioned ==
    /\ DOMAIN colls = {COLLECTION_NAME}
    /\ colls[COLLECTION_NAME].indexes =
           << [field_name |-> "embedding", metric_type |-> "L2",
               index_type |-> "HNSW", M |-> 16, efConstruction |-> 200] >>
    /\ num_entities(colls, COLLECTION_NAME) = 5
    /\ colls[COLLECTION_NAME].pending = <<>>

CleanStep4Run ==
    /\ script = "step4"
    /\ pc = "done"
    /\ ~flags.failed

(* C1: a run of step4 main that starts on a server without collections and *)
(* in which every external call succeeds ends with exit status 0, and then *)
(* the server holds exactly the collection support_docs_v1, with one index *)
(* (HNSW, L2, on "embedding") and exactly 5 visible entities; and every    *)
(* run that starts does end.                                               *)
C1_FreshRunProvisions ==
    /\ []((CleanStep4Run /\ flags.fresh) => (exitCode = 0 /\ Provisioned))
    /\ (pc = "connect") ~> (pc = "done")

(* C1 witness: such a run has ended, and it issued create, create_index,   *)
(* insert and flush                                                        *)
C1_Witness ==
    /\ CleanStep4Run /\ flags.fresh
    /\ exitCode = 0
    /\ calls["create"] = 1 /\ calls["create_index"] = 1
    /\ calls["insert"] = 1 /\ calls["flush"] = 1
    /\ Provisioned

(* C2: over any sequence of runs in which single calls may fail and abort  *)
(* the run, the collection never has more than one index nor more than 5   *)
(* sample rows (visible or not), and a step4 run in which no call fails    *)
(* ends with exactly one index and exactly 5 rows.                         *)
C2_ReentrantAfterFailure ==
    /\ \A n \in DOMAIN colls :
           /\ Len(colls[n].indexes) <= 1
           /\ Len(colls[n].rows) + Len(colls[n].pending) <= NUM_SAMPLES
    /\ CleanStep4Run =>
           /\ COLLECTION_NAME \in DOMAIN colls
           /\ Len(colls[COLLECTION_NAME].indexes) = 1
           /\ Len(colls[COLLECTION_NAME].rows)
                  + Len(colls[COLLECTION_NAME].pending) = NUM_SAMPLES

(* The calls of which a second attempt in one run would be a retry *)
SingleAttemptCalls ==
    {"connect", "disconnect", "version", "list", "has_collection", "drop",
     "create", "load", "create_index", "insert", "flush"}

====
